---- MODULE Spec2Model ----
(***************************************************************************)
(* CreateOrderFunction (src/orders/src/create_order/main.py).              *)
(*                                                                         *)
(* One invocation of handler is a sequential program (pc) that, inside     *)
(* asyncio.run(validate(order)), drives an asyncio event loop: a FIFO      *)
(* queue of callbacks (ready).  asyncio.gather wraps the three validator   *)
(* coroutines in tasks, in argument order.  The validators contain no      *)
(* await: requests.post is a blocking call, so a task step runs its        *)
(* coroutine from the first to the last line while the loop's thread is    *)
(* held; the POST is the only point where the outside world acts.          *)
(* Invocations share nothing but the DynamoDB table and the uuid supply.   *)
(*                                                                         *)
(* Python dicts are functions with a set of string keys (DOMAIN), so a     *)
(* missing key is a key outside the domain.                                *)
(***************************************************************************)
EXTENDS Integers, Sequences, FiniteSets, TLC

(***************************************************************************)
(* Bounds of the model.                                                    *)
(***************************************************************************)
NumInvocations == 2
MaxProducts == 2
MaxQuantity == 2

Invocations == 1..NumInvocations

(***************************************************************************)
(* Python helpers.                                                         *)
(***************************************************************************)
EmptyDict == [k \in {} |-> 0]

\* d.get(k, default)
Get(d, k, default) == IF k \in DOMAIN d THEN d[k] ELSE default

\* d[k] = v
SetItem(d, k, v) == [kk \in DOMAIN d \cup {k} |-> IF kk = k THEN v ELSE d[kk]]

(***************************************************************************)
(* Submitted payloads.                                                     *)
(***************************************************************************)
UserIds == {"u1"}
\* The declared delivery prices; 10 and 12 are the prices of the mismatch
\* example.
DeliveryPrices == {10, 12}
Addresses == {"addr"}

\* unit prices of the submitted lines
Prices == {3}

RequiredLines ==
    [productId : {"p1"}, name : {"n1"}, package : {"pkg"}, price : Prices]

\* product lines as submitted: quantity is optional
ProductLines ==
    RequiredLines \cup
    { SetItem(l, "quantity", q) : l \in RequiredLines, q \in 1..MaxQuantity }

RECURSIVE SeqsUpTo(_, _)
SeqsUpTo(S, n) ==
    IF n = 0 THEN {<<>>}
    ELSE LET shorter == SeqsUpTo(S, n - 1)
         IN shorter \cup { Append(s, x) : s \in { t \in shorter : Len(t) = n - 1 }, x \in S }

ValidOrders ==
    [products : SeqsUpTo(ProductLines, MaxProducts),
     deliveryPrice : DeliveryPrices,
     address : Addresses]

\* orders that violate the structural contract: no products, no deliveryPrice
InvalidOrders ==
    [deliveryPrice : DeliveryPrices, address : Addresses] \cup
    [products : {<<>>}, address : Addresses]

Orders == ValidOrders \cup InvalidOrders

Events ==
    { [userId |-> u, order |-> o] : u \in UserIds, o \in Orders } \cup
    { [order |-> o] : o \in Orders } \cup
    { [userId |-> u] : u \in UserIds } \cup
    { EmptyDict }

(***************************************************************************)
(* Contract Validator: jsonschema.validate(order, schema).  schema.json is *)
(* not part of the sources; the contract is the one the specification      *)
(* gives: products (lines with productId, name, package, price and an      *)
(* optional quantity), deliveryPrice and address are required.             *)
(***************************************************************************)
SchemaValid(order) ==
    /\ {"products", "deliveryPrice", "address"} \subseteq DOMAIN order
    /\ \A n \in 1..Len(order.products) :
          {"productId", "name", "package", "price"} \subseteq DOMAIN order.products[n]

\* str(exc) of the jsonschema.ValidationError
SchemaErrorText(order) ==
    IF "products" \notin DOMAIN order THEN "'products' is a required property"
    ELSE IF "deliveryPrice" \notin DOMAIN order THEN "'deliveryPrice' is a required property"
    ELSE "schema violation"

(***************************************************************************)
(* cleanup_products, inject_order_fields                                   *)
(***************************************************************************)
\* Mutant of cleanup_products: the submitted line is kept as it is and only
\* the default quantity is added.
cleanup_products_keeps_line(products) ==
    [n \in 1..Len(products) |->
        SetItem(products[n], "quantity", Get(products[n], "quantity", 1))]

cleanup_products(products) ==
    [n \in 1..Len(products) |->
        [productId |-> products[n].productId,
         name      |-> products[n].name,
         package   |-> products[n].package,
         price     |-> products[n].price,
         quantity  |-> Get(products[n], "quantity", 1)]]

\* sum([p["price"]*p.get("quantity", 1) for p in products])
RECURSIVE SumLines(_)
SumLines(products) ==
    IF products = <<>> THEN 0
    ELSE Head(products).price * Get(Head(products), "quantity", 1) + SumLines(Tail(products))

\* str(uuid.uuid4()): the n-th identifier drawn from the uuid supply
uuid4(n) == "uuid-" \o ToString(n)

\* now.isoformat()
isoformat(now) == "t" \o ToString(now)

\* Mutant of OrderTotal: the delivery price is left out of the total.
OrderTotalWithoutDelivery(order) == SumLines(order.products)

\* order["total"] = sum([...]) + order["deliveryPrice"]
OrderTotal(order) == SumLines(order.products) + order.deliveryPrice

\* Mutant of inject_order_fields: the clock is read once per date field, so
\* modifiedDate is later than createdDate.
inject_order_fields_two_readings(order, id, now) ==
    LET o1 == SetItem(order, "orderId", id)
        o2 == SetItem(o1, "status", "NEW")
        o3 == SetItem(o2, "createdDate", isoformat(now))
        o4 == SetItem(o3, "modifiedDate", isoformat(now + 1))
    IN SetItem(o4, "total", OrderTotal(o4))

inject_order_fields(order, id, now) ==
    LET o1 == SetItem(order, "orderId", id)
        o2 == SetItem(o1, "status", "NEW")
        o3 == SetItem(o2, "createdDate", isoformat(now))
        o4 == SetItem(o3, "modifiedDate", isoformat(now))
    IN SetItem(o4, "total", OrderTotal(o4))

(***************************************************************************)
(* Remote responses.  A POST either fails to connect (requests raises) or  *)
(* returns a response with a status code and a body that response.json()   *)
(* either parses to a dict or fails to parse.                              *)
(***************************************************************************)
StatusCodes == {200, 500}
ConnectionError == [kind |-> "connection_error"]
Response(status, parses, body) ==
    [kind |-> "response", status_code |-> status, json |-> parses, body |-> body]

DeliveryBodies == {EmptyDict} \cup [pricing : DeliveryPrices]
DeliveryResponses ==
    {ConnectionError} \cup
    { Response(s, TRUE, b) : s \in StatusCodes, b \in DeliveryBodies } \cup
    { Response(s, FALSE, EmptyDict) : s \in StatusCodes }

InvalidSubsets == {<<>>, <<[productId |-> "p1"]>>}
ProductsBodies ==
    {EmptyDict, [message |-> "Internal server error"]} \cup
    [products : InvalidSubsets] \cup
    [products : {<<[productId |-> "p1"]>>}, message : {"Product not found"}]
ProductsResponses ==
    {ConnectionError} \cup
    { Response(s, TRUE, b) : s \in StatusCodes, b \in ProductsBodies } \cup
    { Response(s, FALSE, EmptyDict) : s \in StatusCodes }

\* how a coroutine ends: return (valid, message) or raise
Return(valid, msg) == [exc |-> "", valid |-> valid, msg |-> msg]
Raise(exc) == [exc |-> exc, valid |-> FALSE, msg |-> ""]

(***************************************************************************)
(* The three validators, from the response to the POST on.                 *)
(***************************************************************************)
WrongPriceMessage(declared, authoritative) ==
    "Wrong delivery price: got " \o ToString(declared)
        \o ", expected " \o ToString(authoritative)

validate_delivery(order, response) ==
    IF response.kind = "connection_error" THEN Raise("ConnectionError")
    ELSE IF ~response.json THEN Raise("ValueError")
    ELSE IF response.status_code # 200 \/ "pricing" \notin DOMAIN response.body
         THEN Return(FALSE, "Failure to contact the delivery service")
    ELSE IF response.body.pricing # order.deliveryPrice
         THEN Return(FALSE, WrongPriceMessage(order.deliveryPrice, response.body.pricing))
    ELSE Return(TRUE, "The delivery price is valid")

\* Mutant of validate_payment: the stub declines.
validate_payment_declines(order) == Return(FALSE, "Invalid payment token")

\* lines 84-91
validate_payment(order) == Return(TRUE, "")

validate_products(order, response) ==
    IF response.kind = "connection_error" THEN Raise("ConnectionError")
    ELSE IF ~response.json THEN Raise("ValueError")
    ELSE Return(Len(Get(response.body, "products", <<>>)) = 0,
                Get(response.body, "message", ""))

(***************************************************************************)
(* validate: the aggregation after the join, and the handler's checks.     *)
(***************************************************************************)
\* asyncio.gather(validate_delivery(order), validate_payment(order),
\*                validate_products(order)): the argument order
Validators == <<"delivery", "payment", "products">>

\* Mutant of ErrorMsgs: a rejection without a message is not reported
\* (if not valid and error_msg).
RECURSIVE ErrorMsgsWithText(_)
ErrorMsgsWithText(results) ==
    IF results = <<>> THEN <<>>
    ELSE IF ~Head(results).valid /\ Head(results).msg # ""
         THEN <<Head(results).msg>> \o ErrorMsgsWithText(Tail(results))
         ELSE ErrorMsgsWithText(Tail(results))

\* for valid, error_msg in <results>: if not valid: error_msgs.append(error_msg)
RECURSIVE ErrorMsgs(_)
ErrorMsgs(results) ==
    IF results = <<>> THEN <<>>
    ELSE IF ~Head(results).valid
         THEN <<Head(results).msg>> \o ErrorMsgs(Tail(results))
         ELSE ErrorMsgs(Tail(results))

\* Mutant of HasErrors: a single error is let through (len(error_msgs) > 1).
HasErrorsSeveral(error_msgs) == Len(error_msgs) > 1

\* if len(error_msgs) > 0
HasErrors(error_msgs) == Len(error_msgs) > 0

\* Mutant of RequiredKeys: the keys are checked in the other order.
RequiredKeysUserIdFirst == <<"userId", "order">>

\* for key in ["order", "userId"]
RequiredKeys == <<"order", "userId">>

\* the keys of RequiredKeys the event lacks, in the order of the loop
MissingKeys(ev) == SelectSeq(RequiredKeys, LAMBDA k : k \notin DOMAIN ev)

Failure(message, errors) ==
    [success |-> FALSE, message |-> message, errors |-> errors]
Success(order) ==
    [success |-> TRUE, order |-> order, message |-> "Order created"]
\* the handler has not returned / ended with an unhandled exception
NoResult == [pending |-> TRUE]
Unhandled(exc) == [unhandled |-> exc]

\* table.put_item(Item=item): the table's key is the order identifier
TableKey(item) == item.orderId
put_item(tbl, item) == { x \in tbl : TableKey(x) # TableKey(item) } \cup {item}

(***************************************************************************)
(* State.                                                                  *)
(***************************************************************************)
VARIABLES
    pc,         \* pc[i]: where invocation i of handler stands
    submitted,  \* submitted[i]: the payload as the caller sent it
    event,      \* event[i]: the event dict; order is event["order"] itself
    coro,       \* coro[i][t]: validator t's task: state, response, outcome
    ready,      \* ready[i]: the event loop's FIFO queue of callbacks
    outer,      \* outer[i]: the future gather returned
    error_msgs, \* error_msgs[i]: what validate returned
    result,     \* result[i]: what handler returned
    calls,      \* calls[i]: the requests sent to remote services, in order
    generated,  \* generated[i]: the identifiers uuid4 gave to invocation i
    logs,       \* logs[i]: the info and warning records logged
    metrics,    \* metrics[i]: the metrics events printed
    table,      \* the DynamoDB table
    uuids,      \* number of identifiers drawn from the uuid supply
    clock       \* the wall clock: one tick per reading

vars == <<pc, submitted, event, coro, ready, outer, error_msgs, result, calls,
          generated, logs, metrics, table, uuids, clock>>

NoFuture == [state |-> "none", nfinished |-> 0, exc |-> ""]
NoTask == [state |-> "none", response |-> ConnectionError, outcome |-> Raise("")]
ValidatorNames == {Validators[n] : n \in 1..Len(Validators)}

Init ==
    /\ pc = [i \in Invocations |-> "idle"]
    /\ submitted = [i \in Invocations |-> EmptyDict]
    /\ event = [i \in Invocations |-> EmptyDict]
    /\ coro = [i \in Invocations |-> [t \in ValidatorNames |-> NoTask]]
    /\ ready = [i \in Invocations |-> <<>>]
    /\ outer = [i \in Invocations |-> NoFuture]
    /\ error_msgs = [i \in Invocations |-> <<>>]
    /\ result = [i \in Invocations |-> NoResult]
    /\ calls = [i \in Invocations |-> <<>>]
    /\ generated = [i \in Invocations |-> <<>>]
    /\ logs = [i \in Invocations |-> <<>>]
    /\ metrics = [i \in Invocations |-> <<>>]
    /\ table = {}
    /\ uuids = 0
    /\ clock = 0

\* the local variable order of invocation i
Order(i) == event[i].order

Goto(i, label) == pc' = [pc EXCEPT ![i] = label]
ReturnResult(i, r) == /\ result' = [result EXCEPT ![i] = r]
                      /\ Goto(i, "done")
RaiseUnhandled(i, exc) == /\ result' = [result EXCEPT ![i] = Unhandled(exc)]
                          /\ Goto(i, "raised")

(***************************************************************************)
(* handler, lines 195-227                                                  *)
(***************************************************************************)
\* the caller invokes the function with event e
Invoke(i, e) ==
    /\ pc[i] = "idle"
    /\ submitted' = [submitted EXCEPT ![i] = e]
    /\ event' = [event EXCEPT ![i] = e]
    /\ Goto(i, "basic_checks")
    /\ UNCHANGED <<coro, ready, outer, error_msgs, result, calls, generated,
                   logs, metrics, table, uuids, clock>>

\* lines 200-207
BasicChecks(i) ==
    /\ pc[i] = "basic_checks"
    /\ IF MissingKeys(event[i]) # <<>>
       THEN ReturnResult(i, Failure("Invalid event",
                <<"Missing " \o Head(MissingKeys(event[i])) \o " in event">>))
       ELSE /\ Goto(i, "inject_userId")
            /\ UNCHANGED result
    /\ UNCHANGED <<submitted, event, coro, ready, outer, error_msgs, calls,
                   generated, logs, metrics, table, uuids, clock>>

\* Mutant of InjectUserId: the user identifier is written to a copy of the
\* order, the event's order is left as submitted.
InjectUserIdOnCopy(i) ==
    /\ pc[i] = "inject_userId"
    /\ Goto(i, "schema")
    /\ UNCHANGED <<submitted, event, coro, ready, outer, error_msgs, result, calls,
                   generated, logs, metrics, table, uuids, clock>>

\* lines 209-211
InjectUserId(i) ==
    /\ pc[i] = "inject_userId"
    /\ event' = [event EXCEPT ![i].order = SetItem(@, "userId", event[i].userId)]
    /\ Goto(i, "schema")
    /\ UNCHANGED <<submitted, coro, ready, outer, error_msgs, result, calls,
                   generated, logs, metrics, table, uuids, clock>>

\* Mutant of ValidateSchema: the ValidationError is caught but the handler
\* does not return and goes on with the pipeline.
ValidateSchemaNoReturn(i) ==
    /\ pc[i] = "schema"
    /\ Goto(i, "cleanup")
    /\ UNCHANGED <<submitted, event, coro, ready, outer, error_msgs, result,
                   calls, generated, logs, metrics, table, uuids, clock>>

\* lines 213-221
ValidateSchema(i) ==
    /\ pc[i] = "schema"
    /\ IF SchemaValid(Order(i))
       THEN /\ Goto(i, "cleanup")
            /\ UNCHANGED result
       ELSE ReturnResult(i, Failure("JSON Schema validation error",
                                    <<SchemaErrorText(Order(i))>>))
    /\ UNCHANGED <<submitted, event, coro, ready, outer, error_msgs, calls,
                   generated, logs, metrics, table, uuids, clock>>

\* lines 223-224
CleanupProducts(i) ==
    /\ pc[i] = "cleanup"
    /\ event' = [event EXCEPT ![i].order =
                    SetItem(@, "products", cleanup_products(@.products))]
    /\ Goto(i, "inject")
    /\ UNCHANGED <<submitted, coro, ready, outer, error_msgs, result, calls,
                   generated, logs, metrics, table, uuids, clock>>

\* Mutant of InjectOrderFields: the identifier is derived from the content of
\* the submission (its userId) instead of uuid4.
InjectOrderFieldsContentId(i) ==
    /\ pc[i] = "inject"
    /\ clock' = clock + 1
    /\ generated' = [generated EXCEPT ![i] = Append(@, "id-" \o event[i].userId)]
    /\ event' = [event EXCEPT ![i].order =
                    inject_order_fields(@, "id-" \o event[i].userId, clock')]
    /\ Goto(i, "validate")
    /\ UNCHANGED <<submitted, coro, ready, outer, error_msgs, result, calls,
                   logs, metrics, table, uuids>>

\* lines 226-227 and 168-176
InjectOrderFields(i) ==
    /\ pc[i] = "inject"
    /\ clock' = clock + 1
    /\ uuids' = uuids + 1
    /\ generated' = [generated EXCEPT ![i] = Append(@, uuid4(uuids'))]
    /\ event' = [event EXCEPT ![i].order = inject_order_fields(@, uuid4(uuids'), clock')]
    /\ Goto(i, "validate")
    /\ UNCHANGED <<submitted, coro, ready, outer, error_msgs, result, calls,
                   logs, metrics, table>>

(***************************************************************************)
(* asyncio.run(validate(order)): the event loop, lines 129-133 and 38-120  *)
(***************************************************************************)
Step(t) == <<"step", t>>
DoneCallback(t) == <<"done_callback", t>>
Wakeup == <<"wakeup", "validate">>

\* ensure_future on each argument of gather, in order: call_soon(task.__step)
GatherSchedule == [n \in 1..Len(Validators) |-> Step(Validators[n])]

\* Mutant of TaskFinished: fail fast, a rejection or an exception wakes
\* validate at once and the tasks still queued never run.
TaskFinishedFailFast(q, t, outcome) ==
    IF outcome.exc = "" /\ outcome.valid THEN Append(q, <<"done_callback", t>>)
    ELSE <<(<<"wakeup", "validate">>)>>

\* a task whose coroutine has ended schedules its done callbacks
TaskFinished(q, t, outcome) == Append(q, DoneCallback(t))

\* gather's _done_callback sets the outer future's result when
\* nfinished == nfuts
JoinComplete(nfinished) == nfinished = Len(Validators)

\* the loop's thread is free: no validator is blocked in requests.post
LoopIdle(i) == \A t \in ValidatorNames : coro[i][t].state # "posting"

Runs(i, callback) ==
    /\ pc[i] = "loop"
    /\ LoopIdle(i)
    /\ ready[i] # <<>>
    /\ Head(ready[i]) = callback

\* line 230 and lines 129-133: validate runs up to the await of gather
RunValidate(i) ==
    /\ pc[i] = "validate"
    /\ coro' = [coro EXCEPT ![i] =
                  [t \in ValidatorNames |->
                      IF Step(t) \in {GatherSchedule[n] : n \in 1..Len(GatherSchedule)}
                      THEN [NoTask EXCEPT !.state = "scheduled"] ELSE NoTask]]
    /\ ready' = [ready EXCEPT ![i] = GatherSchedule]
    /\ outer' = [outer EXCEPT ![i] = [NoFuture EXCEPT !.state = "pending"]]
    /\ Goto(i, "loop")
    /\ UNCHANGED <<submitted, event, error_msgs, result, calls, generated,
                   logs, metrics, table, uuids, clock>>

\* validate_delivery, lines 44-57: the POST is sent and the thread blocks
DeliveryPost(i) ==
    /\ Runs(i, Step("delivery"))
    /\ coro' = [coro EXCEPT ![i]["delivery"].state = "posting"]
    /\ ready' = [ready EXCEPT ![i] = Tail(@)]
    /\ calls' = [calls EXCEPT ![i] = Append(@,
                    [service |-> "delivery", path |-> "/backend/pricing",
                     json |-> [products |-> Order(i).products,
                               address |-> Order(i).address]])]
    /\ UNCHANGED <<pc, submitted, event, outer, error_msgs, result, generated,
                   logs, metrics, table, uuids, clock>>

\* the log records of validate_delivery, lines 66-70 and 74-78
DeliveryLog(outcome) ==
    IF outcome.exc = "" /\ ~outcome.valid THEN <<outcome.msg>> ELSE <<>>

\* Mutant of DeliveryResponse: the validator corrects the order, writing the
\* authoritative price into it.
DeliveryResponseWritesPrice(i, r) ==
    /\ pc[i] = "loop"
    /\ coro[i]["delivery"].state = "posting"
    /\ LET outcome == validate_delivery(Order(i), r)
       IN /\ coro' = [coro EXCEPT ![i]["delivery"] =
                        [state |-> "finished", response |-> r, outcome |-> outcome]]
          /\ ready' = [ready EXCEPT ![i] = Append(@, <<"done_callback", "delivery">>)]
          /\ logs' = [logs EXCEPT ![i] =
                        @ \o (IF outcome.exc = "" /\ ~outcome.valid
                              THEN <<outcome.msg>> ELSE <<>>)]
          /\ event' = [event EXCEPT ![i].order =
                         IF outcome.exc = "" /\ "pricing" \in DOMAIN r.body
                         THEN SetItem(@, "deliveryPrice", r.body.pricing) ELSE @]
    /\ UNCHANGED <<pc, submitted, outer, error_msgs, result, calls,
                   generated, metrics, table, uuids, clock>>

\* validate_delivery, lines 53-81: the POST returns or raises
DeliveryResponse(i, r) ==
    /\ pc[i] = "loop"
    /\ coro[i]["delivery"].state = "posting"
    /\ LET outcome == validate_delivery(Order(i), r)
       IN /\ coro' = [coro EXCEPT ![i]["delivery"] =
                        [state |-> "finished", response |-> r, outcome |-> outcome]]
          /\ ready' = [ready EXCEPT ![i] = TaskFinished(@, "delivery", outcome)]
          /\ logs' = [logs EXCEPT ![i] = @ \o DeliveryLog(outcome)]
    /\ UNCHANGED <<pc, submitted, event, outer, error_msgs, result, calls,
                   generated, metrics, table, uuids, clock>>

\* validate_payment, lines 84-91
RunPayment(i) ==
    /\ Runs(i, Step("payment"))
    /\ LET outcome == validate_payment(Order(i))
       IN /\ coro' = [coro EXCEPT ![i]["payment"] =
                        [@ EXCEPT !.state = "finished", !.outcome = outcome]]
          /\ ready' = [ready EXCEPT ![i] = TaskFinished(Tail(@), "payment", outcome)]
    /\ UNCHANGED <<pc, submitted, event, outer, error_msgs, result, calls,
                   generated, logs, metrics, table, uuids, clock>>

\* validate_products, lines 100-112: the POST is sent and the thread blocks
ProductsPost(i) ==
    /\ Runs(i, Step("products"))
    /\ coro' = [coro EXCEPT ![i]["products"].state = "posting"]
    /\ ready' = [ready EXCEPT ![i] = Tail(@)]
    /\ calls' = [calls EXCEPT ![i] = Append(@,
                    [service |-> "products", path |-> "/backend/validate",
                     json |-> [products |-> Order(i).products]])]
    /\ UNCHANGED <<pc, submitted, event, outer, error_msgs, result, generated,
                   logs, metrics, table, uuids, clock>>

\* validate_products, lines 108-120: the POST returns or raises
ProductsResponse(i, r) ==
    /\ pc[i] = "loop"
    /\ coro[i]["products"].state = "posting"
    /\ LET outcome == validate_products(Order(i), r)
       IN /\ coro' = [coro EXCEPT ![i]["products"] =
                        [state |-> "finished", response |-> r, outcome |-> outcome]]
          /\ ready' = [ready EXCEPT ![i] = TaskFinished(@, "products", outcome)]
    /\ UNCHANGED <<pc, submitted, event, outer, error_msgs, result, calls,
                   generated, logs, metrics, table, uuids, clock>>

\* gather's _done_callback for the task of validator t
GatherDone(i, t) ==
    /\ Runs(i, DoneCallback(t))
    /\ LET n == outer[i].nfinished + 1
           exc == coro[i][t].outcome.exc
       IN IF outer[i].state # "pending"
          THEN /\ outer' = [outer EXCEPT ![i].nfinished = n]
               /\ ready' = [ready EXCEPT ![i] = Tail(@)]
          ELSE IF exc # ""
          THEN /\ outer' = [outer EXCEPT ![i] =
                              [state |-> "exception", nfinished |-> n, exc |-> exc]]
               /\ ready' = [ready EXCEPT ![i] = Append(Tail(@), Wakeup)]
          ELSE IF JoinComplete(n)
          THEN /\ outer' = [outer EXCEPT ![i] =
                              [state |-> "result", nfinished |-> n, exc |-> ""]]
               /\ ready' = [ready EXCEPT ![i] = Append(Tail(@), Wakeup)]
          ELSE /\ outer' = [outer EXCEPT ![i].nfinished = n]
               /\ ready' = [ready EXCEPT ![i] = Tail(@)]
    /\ UNCHANGED <<pc, submitted, event, coro, error_msgs, result, calls,
                   generated, logs, metrics, table, uuids, clock>>

\* the outcomes of the tasks that ended, in gather's order
Results(i) ==
    LET ended == SelectSeq(Validators, LAMBDA t : coro[i][t].state = "finished")
    IN [n \in 1..Len(ended) |-> coro[i][ended[n]].outcome]

\* asyncio.run cancels the tasks that have not ended when validate ends
CancelAllTasks(tasks) ==
    [t \in ValidatorNames |->
        IF tasks[t].state = "scheduled"
        THEN [tasks[t] EXCEPT !.state = "cancelled"] ELSE tasks[t]]

\* validate resumes after the await, lines 130-144, and asyncio.run returns
\* its result or raises its exception
ValidateResume(i) ==
    /\ Runs(i, Wakeup)
    /\ ready' = [ready EXCEPT ![i] = Tail(@)]
    /\ coro' = [coro EXCEPT ![i] = CancelAllTasks(@)]
    /\ IF outer[i].state = "exception"
       THEN /\ RaiseUnhandled(i, outer[i].exc)
            /\ UNCHANGED <<error_msgs, logs>>
       ELSE /\ error_msgs' = [error_msgs EXCEPT ![i] = ErrorMsgs(Results(i))]
            /\ logs' = [logs EXCEPT ![i] =
                          IF ErrorMsgs(Results(i)) # <<>>
                          THEN Append(@, "Validation errors for order") ELSE @]
            /\ Goto(i, "check_errors")
            /\ UNCHANGED result
    /\ UNCHANGED <<submitted, event, outer, calls, generated, metrics, table,
                   uuids, clock>>

(***************************************************************************)
(* handler, lines 231-275, and store_order                                 *)
(***************************************************************************)
\* os.environ["ENVIRONMENT"]
ENVIRONMENT == "prod"

\* lines 231-236
CheckErrors(i) ==
    /\ pc[i] = "check_errors"
    /\ IF HasErrors(error_msgs[i])
       THEN ReturnResult(i, Failure("Validation errors", error_msgs[i]))
       ELSE /\ Goto(i, "store")
            /\ UNCHANGED result
    /\ UNCHANGED <<submitted, event, coro, ready, outer, error_msgs, calls,
                   generated, logs, metrics, table, uuids, clock>>

\* Mutant of StoreOrder: the identifier is generated again when the order is
\* stored, after the validation.
StoreOrderFreshId(i) ==
    /\ pc[i] = "store"
    /\ uuids' = uuids + 1
    /\ generated' = [generated EXCEPT ![i] = Append(@, uuid4(uuids'))]
    /\ event' = [event EXCEPT ![i].order = SetItem(@, "orderId", uuid4(uuids'))]
    /\ calls' = [calls EXCEPT ![i] = Append(@,
                    [service |-> "dynamodb", path |-> "put_item",
                     json |-> SetItem(Order(i), "orderId", uuid4(uuids'))])]
    /\ Goto(i, "put_item")
    /\ UNCHANGED <<submitted, coro, ready, outer, error_msgs, result,
                   logs, metrics, table, clock>>

\* line 238 and lines 185-190: the put is sent to the table
StoreOrder(i) ==
    /\ pc[i] = "store"
    /\ calls' = [calls EXCEPT ![i] = Append(@,
                    [service |-> "dynamodb", path |-> "put_item", json |-> Order(i)])]
    /\ Goto(i, "put_item")
    /\ UNCHANGED <<submitted, event, coro, ready, outer, error_msgs, result,
                   generated, logs, metrics, table, uuids, clock>>

\* Mutant of PutItemResponse: the exception of put_item is caught and the
\* handler goes on.
PutItemResponseSwallowed(i, ok) ==
    /\ pc[i] = "put_item"
    /\ table' = IF ok THEN put_item(table, Order(i)) ELSE table
    /\ Goto(i, "log")
    /\ UNCHANGED <<submitted, event, coro, ready, outer, error_msgs, result, calls,
                   generated, logs, metrics, uuids, clock>>

\* Mutant of PutItemResponse: a put that raises is sent a second time.
PutItemResponseRetriesOnce(i, ok) ==
    /\ pc[i] = "put_item"
    /\ IF ok
       THEN /\ table' = put_item(table, Order(i))
            /\ Goto(i, "log")
            /\ UNCHANGED result
       ELSE IF Len(SelectSeq(calls[i], LAMBDA c : c.service = "dynamodb")) < 2
            THEN /\ Goto(i, "store")
                 /\ UNCHANGED <<table, result>>
            ELSE /\ RaiseUnhandled(i, "ClientError")
                 /\ UNCHANGED table
    /\ UNCHANGED <<submitted, event, coro, ready, outer, error_msgs, calls,
                   generated, logs, metrics, uuids, clock>>

\* line 190: the table performs the put, or the put raises
PutItemResponse(i, ok) ==
    /\ pc[i] = "put_item"
    /\ IF ok
       THEN /\ table' = put_item(table, Order(i))
            /\ Goto(i, "log")
            /\ UNCHANGED result
       ELSE /\ RaiseUnhandled(i, "ClientError")
            /\ UNCHANGED table
    /\ UNCHANGED <<submitted, event, coro, ready, outer, error_msgs, calls,
                   generated, logs, metrics, uuids, clock>>

\* Mutant of MetricsEvent: the value reported is the total without the
\* delivery price.
MetricsEventProductsValue(order, now) ==
    [orderCreatedTotal |-> SumLines(order.products),
     orderCreated |-> 1,
     environment |-> "prod",
     Timestamp |-> now,
     Dimensions |-> <<"environment">>]

\* json.dumps of the Embedded Metric Format record, lines 253-269
MetricsEvent(order, now) ==
    [orderCreatedTotal |-> order.total,
     orderCreated |-> 1,
     environment |-> ENVIRONMENT,
     Timestamp |-> now,
     Dimensions |-> <<"environment">>]

\* lines 240-275
LogAndReturn(i) ==
    /\ pc[i] = "log"
    /\ clock' = clock + 1
    /\ logs' = [logs EXCEPT ![i] = Append(@, "Order " \o Order(i).orderId \o " created")]
    /\ metrics' = [metrics EXCEPT ![i] = Append(@, MetricsEvent(Order(i), clock'))]
    /\ ReturnResult(i, Success(Order(i)))
    /\ UNCHANGED <<submitted, event, coro, ready, outer, error_msgs, calls,
                   generated, table, uuids>>

(***************************************************************************)
(* Specifications.                                                         *)
(***************************************************************************)
\* one step of invocation i, with the payloads and the remote responses drawn
\* from the given sets
Handler(i, events, deliveryResponses, productsResponses) ==
    \/ \E e \in events : Invoke(i, e)
    \/ BasicChecks(i)
    \/ InjectUserId(i)
    \/ ValidateSchema(i)
    \/ CleanupProducts(i)
    \/ InjectOrderFields(i)
    \/ RunValidate(i)
    \/ DeliveryPost(i)
    \/ \E r \in deliveryResponses : DeliveryResponse(i, r)
    \/ RunPayment(i)
    \/ ProductsPost(i)
    \/ \E r \in productsResponses : ProductsResponse(i, r)
    \/ \E t \in ValidatorNames : GatherDone(i, t)
    \/ ValidateResume(i)
    \/ CheckErrors(i)
    \/ StoreOrder(i)
    \/ \E ok \in BOOLEAN : PutItemResponse(i, ok)
    \/ LogAndReturn(i)

\* one invocation, every payload and every remote response
Next == Handler(1, Events, DeliveryResponses, ProductsResponses)

Spec == Init /\ [][Next]_vars

\* the handler is synchronous code that goes on to its next statement, and
\* each remote service and the table answer each request they receive
FairSpec == Spec /\ WF_vars(Next)

\* concurrent invocations (one execution environment each) that submit the
\* same content; the remote services answer well-formed responses
SameEvent ==
    [userId |-> "u1",
     order |-> [products |-> <<[productId |-> "p1", name |-> "n1",
                                package |-> "pkg", price |-> 3]>>,
                deliveryPrice |-> 10,
                address |-> "addr"]]
AnsweredDelivery == { Response(200, TRUE, b) : b \in [pricing : DeliveryPrices] }
AnsweredProducts == { Response(200, TRUE, b) : b \in [products : InvalidSubsets] }

NextConcurrent ==
    \E i \in Invocations : Handler(i, {SameEvent}, AnsweredDelivery, AnsweredProducts)

SpecConcurrent == Init /\ [][NextConcurrent]_vars

\* one invocation whose product lines vary in every field and may carry a
\* field that is not part of a product line
CatalogueLines ==
    { [productId |-> "p1", name |-> "n1", package |-> "pkg", price |-> 3],
      [productId |-> "p2", name |-> "n2", package |-> "box", price |-> 5] }
WithQuantity(lines) ==
    lines \cup { SetItem(l, "quantity", q) : l \in lines, q \in 1..MaxQuantity }
WithPicture(lines) ==
    lines \cup { SetItem(l, "picture", "p.png") : l \in lines }
SubmittedLines == WithPicture(WithQuantity(CatalogueLines))

NormalizeEvents ==
    { [userId |-> "u1",
       order |-> [products |-> ps, deliveryPrice |-> 10, address |-> "addr"]] :
         ps \in SeqsUpTo(SubmittedLines, MaxProducts) }

NextNormalize == Handler(1, NormalizeEvents, AnsweredDelivery, AnsweredProducts)

SpecNormalize == Init /\ [][NextNormalize]_vars

(***************************************************************************)
(* Properties.                                                             *)
(***************************************************************************)
Finished(i, t) == coro[i][t].state = "finished"
Returned(i, t) == Finished(i, t) /\ coro[i][t].outcome.exc = ""
Accepted(i, t) == Returned(i, t) /\ coro[i][t].outcome.valid
Rejected(i, t) == Returned(i, t) /\ ~coro[i][t].outcome.valid
Message(i, t) == coro[i][t].outcome.msg

\* handler returned a failure result / a success result
Failed(i) == pc[i] = "done" /\ ~result[i].success
Succeeded(i) == pc[i] = "done" /\ result[i].success

PutSent(i) == \E n \in 1..Len(calls[i]) : calls[i][n].service = "dynamodb"
\* the records of the table that carry an identifier generated by invocation i
StoredBy(i) ==
    { x \in table : \E n \in 1..Len(generated[i]) : x.orderId = generated[i][n] }

\* C1: the put to the order store is sent only when all three validators
\* have completed and accepted, and an invocation that returns a failure
\* result has sent no put and has no record in the store.
C1_StoreOnlyAfterFullAcceptance ==
    \A i \in Invocations :
        /\ (PutSent(i) \/ pc[i] \in {"store", "put_item", "log"} \/ StoredBy(i) # {})
              => \A t \in ValidatorNames : Accepted(i, t)
        /\ Failed(i) => (~PutSent(i) /\ StoredBy(i) = {})

C1_Witness ==
    \E i \in Invocations : PutSent(i) /\ StoredBy(i) # {} /\ Succeeded(i)

\* validate has returned its list to the handler
ValidateReturned(i) == outer[i].state = "result" /\ pc[i] # "loop"

MessageIfRejected(i, t) == IF Rejected(i, t) THEN <<Message(i, t)>> ELSE <<>>

\* C2: the list validate returns is the messages of the rejecting validators,
\* one per rejecting validator (an empty message included), in the order
\* Delivery, Payment, Product; it is empty iff all three accepted; when the
\* delivery and the product check both reject, the handler's errors hold both
\* messages, the delivery message first.
C2_ErrorsInRegistrationOrder ==
    \A i \in Invocations :
        ValidateReturned(i) =>
            /\ error_msgs[i] = MessageIfRejected(i, "delivery")
                                 \o MessageIfRejected(i, "payment")
                                 \o MessageIfRejected(i, "products")
            /\ (error_msgs[i] = <<>>) <=> (\A t \in ValidatorNames : Accepted(i, t))
            /\ (pc[i] = "done" /\ Rejected(i, "delivery") /\ Rejected(i, "products"))
                  => result[i].errors = <<Message(i, "delivery"), Message(i, "products")>>

C2_Witness ==
    \E i \in Invocations :
        /\ pc[i] = "done"
        /\ Rejected(i, "delivery")
        /\ Rejected(i, "products")
        /\ Message(i, "products") = ""
        /\ Len(result[i].errors) = 2

\* C3: once validate has been entered, it goes back to the handler (with a
\* list or with an exception) only when all three validators have run to
\* their end, whatever their outcomes; no validator is ever cancelled.
C3_AllValidatorsRunToCompletion ==
    \A i \in Invocations :
        /\ \A t \in ValidatorNames : coro[i][t].state # "cancelled"
        /\ (outer[i].state # "none" /\ pc[i] # "loop")
              => \A t \in ValidatorNames : Finished(i, t)

C3_Witness ==
    \E i \in Invocations :
        /\ pc[i] = "check_errors"
        /\ Rejected(i, "delivery")
        /\ Finished(i, "payment")
        /\ Finished(i, "products")

\* the POST failed to connect, or the body of the response does not parse
TransportFailure(r) == r.kind = "connection_error" \/ ~r.json
RemoteValidators == {"delivery", "products"}

\* C4: a remote call that fails to connect or whose response body cannot be
\* parsed makes its validator return (False, message), and the handler
\* returns success = false with that message among the errors; the
\* invocation never ends in an unhandled exception because of it.
C4_TransportFailureIsFolded ==
    \A i \in Invocations : \A t \in RemoteValidators :
        (Finished(i, t) /\ TransportFailure(coro[i][t].response)) =>
            /\ Rejected(i, t)
            /\ pc[i] # "raised"
            /\ pc[i] = "done" =>
                  /\ ~result[i].success
                  /\ \E n \in 1..Len(result[i].errors) : result[i].errors[n] = Message(i, t)

\* C5: validate_delivery accepts iff the response has status 200 and a
\* pricing equal to deliveryPrice; with another status or no pricing field it
\* rejects with "Failure to contact the delivery service"; with status 200
\* and a different pricing it rejects with "Wrong delivery price: got
\* <declared>, expected <authoritative>".
C5_DeliveryDecision ==
    \A i \in Invocations :
        Finished(i, "delivery") =>
            LET r == coro[i]["delivery"].response
                hasPricing == r.kind = "response" /\ r.json /\ "pricing" \in DOMAIN r.body
                ok == r.kind = "response" /\ r.status_code = 200
                declared == Order(i).deliveryPrice
            IN /\ Accepted(i, "delivery") <=> (ok /\ hasPricing /\ r.body.pricing = declared)
               /\ (r.kind = "response" /\ (~ok \/ ~hasPricing)) =>
                     /\ Rejected(i, "delivery")
                     /\ Message(i, "delivery") = "Failure to contact the delivery service"
               /\ (ok /\ hasPricing /\ r.body.pricing # declared) =>
                     /\ Rejected(i, "delivery")
                     /\ (declared = 10 /\ r.body.pricing = 12) =>
                           Message(i, "delivery") = "Wrong delivery price: got 10, expected 12"
                     /\ (declared = 12 /\ r.body.pricing = 10) =>
                           Message(i, "delivery") = "Wrong delivery price: got 12, expected 10"

\* C6: validate_products accepts iff the catalog returned an invalid-products
\* subset and it is empty; a response with a non-success status or without a
\* products list is rejected.
C6_ProductsDecision ==
    \A i \in Invocations :
        (Finished(i, "products") /\ ~TransportFailure(coro[i]["products"].response)) =>
            LET r == coro[i]["products"].response
                hasList == "products" \in DOMAIN r.body
            IN /\ Accepted(i, "products") <=> (hasList /\ r.body.products = <<>>)
               /\ (r.status_code # 200 \/ ~hasList) => Rejected(i, "products")

\* invocation i has been called with a payload without userId
LacksUserId(i) == pc[i] # "idle" /\ "userId" \notin DOMAIN submitted[i]

\* nothing outside the invocation has been touched: no identifier drawn, no
\* remote request sent, no record stored
NoSideEffects(i) == generated[i] = <<>> /\ calls[i] = <<>> /\ StoredBy(i) = {}

\* C7 as stated: a payload without userId, with or without order, gets
\* success = false with exactly one error, which names userId, and has no
\* side effects.
C7_MissingUserIdNamesUserId ==
    \A i \in Invocations :
        LacksUserId(i) =>
            /\ NoSideEffects(i)
            /\ pc[i] \in {"basic_checks", "done"}
            /\ pc[i] = "done" =>
                  /\ ~result[i].success
                  /\ result[i].errors = <<"Missing userId in event">>

\* C7 amended: a payload without userId gets success = false with exactly one
\* error and no side effects; the error names userId when the payload has an
\* order, and names order when the payload lacks order as well.
C7_MissingUserIdNamesFirstMissingKey ==
    \A i \in Invocations :
        LacksUserId(i) =>
            /\ NoSideEffects(i)
            /\ pc[i] \in {"basic_checks", "done"}
            /\ pc[i] = "done" =>
                  /\ ~result[i].success
                  /\ result[i].errors =
                        IF "order" \in DOMAIN submitted[i]
                        THEN <<"Missing userId in event">>
                        ELSE <<"Missing order in event">>

C7_Witness ==
    \E i \in Invocations :
        /\ LacksUserId(i)
        /\ "order" \in DOMAIN submitted[i]
        /\ pc[i] = "done"
        /\ result[i].errors = <<"Missing userId in event">>

\* the submitted payload has both keys and its order violates the contract
SchemaViolation(i) ==
    /\ pc[i] # "idle"
    /\ MissingKeys(submitted[i]) = <<>>
    /\ ~SchemaValid(submitted[i].order)

\* C8: an order that fails the schema check gets success = false, the message
\* "JSON Schema validation error" and one error; the pipeline stops there: no
\* normalization, no field injection (no orderId), no remote call, no record.
C8_SchemaFailureStopsPipeline ==
    \A i \in Invocations :
        SchemaViolation(i) =>
            /\ NoSideEffects(i)
            /\ pc[i] \in {"basic_checks", "inject_userId", "schema", "done"}
            /\ "orderId" \notin DOMAIN Order(i)
            /\ pc[i] = "done" =>
                  /\ ~result[i].success
                  /\ result[i].message = "JSON Schema validation error"
                  /\ Len(result[i].errors) = 1

C8_Witness ==
    \E i \in Invocations :
        /\ SchemaViolation(i)
        /\ "products" \notin DOMAIN submitted[i].order
        /\ pc[i] = "done"

\* the sum over the stored lines of price * stored quantity
RECURSIVE StoredLinesValue(_)
StoredLinesValue(lines) ==
    IF Len(lines) = 0 THEN 0
    ELSE lines[Len(lines)].price * lines[Len(lines)].quantity
            + StoredLinesValue(SubSeq(lines, 1, Len(lines) - 1))

TotalIsDerived(order) ==
    order.total = StoredLinesValue(order.products) + order.deliveryPrice

\* C9: every record of the store and every order of a success result has
\* total = sum of price * quantity over its stored lines + deliveryPrice, the
\* stored quantity being the submitted one, or 1 when the line had none.
C9_TotalIsDerivedSum ==
    /\ \A x \in table : TotalIsDerived(x)
    /\ \A i \in Invocations :
          /\ Succeeded(i) => TotalIsDerived(result[i].order)
          /\ \A x \in StoredBy(i) \cup (IF Succeeded(i) THEN {result[i].order} ELSE {}) :
                /\ Len(x.products) = Len(submitted[i].order.products)
                /\ \A n \in 1..Len(x.products) :
                      x.products[n].quantity =
                          IF "quantity" \in DOMAIN submitted[i].order.products[n]
                          THEN submitted[i].order.products[n].quantity
                          ELSE 1

C9_Witness ==
    \E i \in Invocations :
        /\ Succeeded(i)
        /\ StoredBy(i) = {result[i].order}
        /\ Len(result[i].order.products) = 2
        /\ "quantity" \notin DOMAIN submitted[i].order.products[1]
        /\ "quantity" \in DOMAIN submitted[i].order.products[2]
        /\ submitted[i].order.products[2].quantity = 2

\* C10: an identifier given to one invocation is given to no other, stored or
\* not; invocations that succeed have distinct orderIds, and the record each
\* wrote is still in the store: no invocation overwrites another's record.
C10_OrderIdsNeverReused ==
    \A i \in Invocations :
        /\ Len(generated[i]) <= 1
        /\ \A j \in Invocations \ {i} :
              /\ \A n \in 1..Len(generated[i]) : \A m \in 1..Len(generated[j]) :
                    generated[i][n] # generated[j][m]
              /\ (Succeeded(i) /\ Succeeded(j)) =>
                    result[i].order.orderId # result[j].order.orderId
        /\ (pc[i] = "log" \/ Succeeded(i)) => Order(i) \in table

C10_Witness ==
    \E i \in Invocations : \E j \in Invocations \ {i} :
        /\ Succeeded(i)
        /\ Succeeded(j)
        /\ submitted[i] = submitted[j]
        /\ {result[i].order, result[j].order} \subseteq table
        /\ Cardinality(table) >= 2

\* the number of puts invocation i sent to the table
PutsSent(i) ==
    Cardinality({ n \in 1..Len(calls[i]) : calls[i][n].service = "dynamodb" })

\* C11: when all three validators accept and the put succeeds, handler sends
\* exactly one put and returns success = true, "Order created" and an order
\* that is the stored record, with the orderId generated in this invocation,
\* createdDate = modifiedDate and status "NEW".
C11_SuccessResultIsStoredOrder ==
    \A i \in Invocations :
        ((\A t \in ValidatorNames : Accepted(i, t)) /\ pc[i] = "done") =>
            /\ result[i].success
            /\ result[i].message = "Order created"
            /\ PutsSent(i) = 1
            /\ StoredBy(i) = {result[i].order}
            /\ generated[i] = <<result[i].order.orderId>>
            /\ result[i].order.createdDate = result[i].order.modifiedDate
            /\ result[i].order.status = "NEW"

C11_Witness ==
    \E i \in Invocations :
        /\ pc[i] = "done"
        /\ \A t \in ValidatorNames : Accepted(i, t)
        /\ coro[i]["delivery"].response.body.pricing = Order(i).deliveryPrice
        /\ coro[i]["products"].response.body = [products |-> <<>>]
        /\ result[i].order \in table

\* the put of invocation i was sent and answered, and left no record: the
\* write failed
WriteFailed(i) == PutSent(i) /\ pc[i] # "put_item" /\ StoredBy(i) = {}

CreationLogged(i) ==
    \E n \in 1..Len(logs[i]) : \E k \in 1..Len(generated[i]) :
        logs[i][n] = "Order " \o generated[i][k] \o " created"

\* C12: when the write to the store fails the invocation ends in an unhandled
\* exception: handler returns no result, neither success = true nor success =
\* false, and neither the creation log record nor the metrics event is
\* emitted.
C12_WriteFailureIsUnhandled ==
    \A i \in Invocations :
        WriteFailed(i) =>
            /\ pc[i] = "raised"
            /\ result[i] = Unhandled("ClientError")
            /\ ~CreationLogged(i)
            /\ metrics[i] = <<>>

C12_Witness ==
    \E i \in Invocations : WriteFailed(i) /\ pc[i] = "raised" /\ table = {}

\* m is a metrics event for one created order of the given value, tagged with
\* the environment dimension
CreationMetrics(m, total) ==
    /\ m.orderCreated = 1
    /\ m.orderCreatedTotal = total
    /\ m.environment = ENVIRONMENT
    /\ m.Dimensions = <<"environment">>

\* C13 as stated: every invocation that returns, with a success or with a
\* failure result, has emitted exactly one metrics event with a count of 1,
\* tagged with the environment dimension.
C13_OneMetricsEventPerAttempt ==
    \A i \in Invocations :
        pc[i] = "done" =>
            /\ Len(metrics[i]) = 1
            /\ metrics[i][1].orderCreated = 1
            /\ metrics[i][1].Dimensions = <<"environment">>

\* C13 amended: an invocation that returns a success result has emitted
\* exactly one metrics event, with a count of 1 created order and the total
\* of the returned order, tagged with the environment dimension; until then,
\* and in an invocation that ends in a failure result or in an unhandled
\* exception, no metrics event is emitted.
C13_OneMetricsEventPerCreatedOrder ==
    \A i \in Invocations :
        IF Succeeded(i)
        THEN /\ Len(metrics[i]) = 1
             /\ CreationMetrics(metrics[i][1], result[i].order.total)
        ELSE metrics[i] = <<>>

C13_Witness ==
    \E i \in Invocations :
        /\ Succeeded(i)
        /\ Len(metrics[i]) = 1
        /\ metrics[i][1].orderCreatedTotal = 3 * 2 + 3 + 12

Outstanding(i, t) == coro[i][t].state = "posting"

\* C14: the validators' remote calls overlap: the request of
\* validate_products is issued before the request of validate_delivery has
\* returned, so that both are outstanding together.
C14_SecondCallIssuedBeforeFirstReturns ==
    [][\A i \in Invocations :
          (~Outstanding(i, "products") /\ Outstanding(i, "products")')
              => Outstanding(i, "delivery")]_vars

\* invocation i has not reached inject_order_fields, or returned before it
BeforeInjection(i) ==
    \/ pc[i] \in {"idle", "basic_checks", "inject_userId", "schema", "cleanup", "inject"}
    \/ /\ pc[i] = "done"
       /\ result[i].message \in {"Invalid event", "JSON Schema validation error"}

RejectedByValidation(i) ==
    pc[i] = "done" /\ result[i].message = "Validation errors"

\* C15: the fields are injected once per invocation that passes the schema
\* check, after the schema check and the normalization and before the first
\* remote request; the order the validators read, the item put to the store
\* and the order returned carry that one orderId; an order rejected by the
\* remote validation has an orderId that is in no record of the store.
C15_InjectionOnceBeforeValidation ==
    \A i \in Invocations :
        /\ Len(generated[i]) = (IF BeforeInjection(i) THEN 0 ELSE 1)
        /\ calls[i] # <<>> => generated[i] # <<>>
        /\ generated[i] # <<>> =>
              /\ SchemaValid(submitted[i].order)
              /\ Order(i).products = cleanup_products(submitted[i].order.products)
              /\ Order(i).orderId = generated[i][1]
              /\ {"status", "createdDate", "modifiedDate", "total"} \subseteq DOMAIN Order(i)
              /\ \A n \in 1..Len(calls[i]) :
                    calls[i][n].service = "dynamodb"
                        => calls[i][n].json.orderId = generated[i][1]
              /\ Succeeded(i) => result[i].order.orderId = generated[i][1]
        /\ RejectedByValidation(i) =>
              /\ Len(generated[i]) = 1
              /\ \A x \in table : x.orderId # generated[i][1]

C15_Witness ==
    \E i \in Invocations :
        /\ RejectedByValidation(i)
        /\ Len(calls[i]) = 2
        /\ Order(i).orderId = generated[i][1]
        /\ table = {}

\* the validators of invocation i are being started, are running or are
\* being joined
Validating(i) == pc[i] \in {"validate", "loop"}

\* the tasks of invocation i whose record changes in the step
Written(i) == { t \in ValidatorNames : coro'[i][t] # coro[i][t] }

\* C16: from the fan-out to the join no step changes the order; a step writes
\* the result of at most one validator, its own; the results are combined
\* into the list of errors only in the step that ends validate.
C16_ValidatorsOnlyReadTheOrder ==
    [][\A i \in Invocations :
          Validating(i) =>
              /\ event'[i] = event[i]
              /\ pc[i] = "loop" => Cardinality(Written(i)) <= 1
              /\ \A t \in Written(i) :
                    coro[i][t].state = "finished" => coro'[i][t] = coro[i][t]
              /\ error_msgs'[i] # error_msgs[i] =>
                    (pc[i] = "loop" /\ pc'[i] = "check_errors" /\ outer[i].state = "result")
      ]_vars

\* the order the field injector built from the submitted payload
InjectedOrder(i, now) ==
    inject_order_fields(
        SetItem(SetItem(submitted[i].order, "userId", submitted[i].userId),
                "products", cleanup_products(submitted[i].order.products)),
        generated[i][1], now)

C16_Witness ==
    \E i \in Invocations :
        /\ pc[i] = "check_errors"
        /\ Rejected(i, "delivery")
        /\ Rejected(i, "products")
        /\ error_msgs[i] = <<Message(i, "delivery"), Message(i, "products")>>
        /\ \E now \in 1..clock : Order(i) = InjectedOrder(i, now)

\* C17: validate_payment accepts every order with an empty message; the
\* errors of a "Validation errors" result are one or two messages, each the
\* message of the delivery or of the product validator, none of the payment
\* validator.
C17_PaymentStubNeverRejects ==
    \A i \in Invocations :
        /\ Finished(i, "payment") =>
              /\ Accepted(i, "payment")
              /\ Message(i, "payment") = ""
        /\ RejectedByValidation(i) =>
              /\ Len(result[i].errors) \in {1, 2}
              /\ result[i].errors = MessageIfRejected(i, "delivery")
                                      \o MessageIfRejected(i, "products")

C17_Witness ==
    \E i \in Invocations :
        /\ RejectedByValidation(i)
        /\ Accepted(i, "payment")
        /\ Accepted(i, "delivery")
        /\ result[i].errors = <<"Product not found">>

LineFields == {"productId", "name", "package", "price", "quantity"}

\* out is the projection of the submitted line in
ProjectedLine(in, out) ==
    /\ DOMAIN out = LineFields
    /\ out.productId = in.productId
    /\ out.name = in.name
    /\ out.package = in.package
    /\ out.price = in.price
    /\ out.quantity = (IF "quantity" \in DOMAIN in THEN in.quantity ELSE 1)

\* cleanup_products has run in invocation i
Normalized(i) == pc[i] = "inject" \/ ~BeforeInjection(i)

\* C18: the products of the order after cleanup_products are the submitted
\* lines in the same number and order, each with exactly the fields
\* productId, name, package, price (copied) and quantity (copied, or 1 when
\* absent), any other field dropped; cleanup_products leaves this output
\* unchanged when applied to it.
C18_CleanupIsProjection ==
    \A i \in Invocations :
        Normalized(i) =>
            LET in == submitted[i].order.products
                out == Order(i).products
            IN /\ Len(out) = Len(in)
               /\ \A n \in 1..Len(in) : ProjectedLine(in[n], out[n])
               /\ cleanup_products(out) = out

C18_Witness ==
    \E i \in Invocations :
        /\ pc[i] = "inject"
        /\ Len(submitted[i].order.products) = 2
        /\ submitted[i].order.products[1] = submitted[i].order.products[2]
        /\ DOMAIN submitted[i].order.products[1] =
              {"productId", "name", "package", "price", "picture"}
        /\ Order(i).products[2].quantity = 1

\* handler returned the schema-validation failure
SchemaRejected(i) ==
    pc[i] = "done" /\ result[i].message = "JSON Schema validation error"

\* C19 (as stated): when handler returns the "JSON Schema validation error"
\* result, the event's order is the order the caller submitted, no field
\* added or rewritten.
C19_SchemaFailureLeavesOrderUnchanged ==
    \A i \in Invocations :
        SchemaRejected(i) => event[i].order = submitted[i].order

\* C19 (amended): when handler returns the "JSON Schema validation error"
\* result, the event's order is the submitted order with the field userId set
\* to the event's userId and no other field added, removed or rewritten; the
\* event's userId is the submitted one.
C19_SchemaFailureOnlyInjectsUserId ==
    \A i \in Invocations :
        SchemaRejected(i) =>
            /\ event[i].userId = submitted[i].userId
            /\ event[i].order =
                  SetItem(submitted[i].order, "userId", submitted[i].userId)
            /\ DOMAIN event[i].order = DOMAIN submitted[i].order \cup {"userId"}

C19_Witness ==
    \E i \in Invocations :
        /\ SchemaRejected(i)
        /\ "userId" \notin DOMAIN submitted[i].order
        /\ event[i].order.userId = submitted[i].userId
        /\ "products" \notin DOMAIN event[i].order

Terminated(i) == pc[i] \in {"done", "raised"}

\* the result of invocation i is one of the three terminal outcomes, and there
\* is none before the invocation has ended
TerminalOutcome(i) ==
    CASE pc[i] = "done" ->
             \/ /\ ~result[i].success
                /\ "errors" \in DOMAIN result[i]
                /\ result[i].errors # <<>>
                /\ "order" \notin DOMAIN result[i]
             \/ /\ result[i].success
                /\ "order" \in DOMAIN result[i]
                /\ "errors" \notin DOMAIN result[i]
      [] pc[i] = "raised" -> DOMAIN result[i] = {"unhandled"}
      [] OTHER -> result[i] = NoResult

RequestsTo(i, s) ==
    Cardinality({ n \in 1..Len(calls[i]) : calls[i][n].service = s })

\* C20: with every request answered, an invocation that has started ends, in
\* exactly one outcome: a failure result with a non-empty errors list and no
\* order field, a success result with an order field and no errors field, or
\* an unhandled failure; the outcome does not change afterwards; each remote
\* service and the table receive at most one request, and a validator that
\* has finished is not run again.
C20_TerminatesInOneOutcome ==
    /\ [](\A i \in Invocations :
            /\ TerminalOutcome(i)
            /\ \A s \in {"delivery", "products", "dynamodb"} : RequestsTo(i, s) <= 1)
    /\ [][\A i \in Invocations :
            /\ Terminated(i) =>
                  /\ pc'[i] = pc[i]
                  /\ result'[i] = result[i]
                  /\ calls'[i] = calls[i]
            /\ \A t \in ValidatorNames :
                  Finished(i, t) =>
                      /\ Finished(i, t)'
                      /\ coro'[i][t].outcome = coro[i][t].outcome]_vars
    /\ \A i \in Invocations : (pc[i] # "idle") ~> Terminated(i)

C20_Witness ==
    \E i \in Invocations :
        /\ pc[i] = "raised"
        /\ result[i] = Unhandled("ClientError")
        /\ RequestsTo(i, "delivery") = 1
        /\ RequestsTo(i, "products") = 1
        /\ RequestsTo(i, "dynamodb") = 1
        /\ \A t \in ValidatorNames : Accepted(i, t)

====
